---- MODULE Spec2Model ----
(***************************************************************************)
(* Model of reky, the git-backed dependency fetcher (src/src/reky.hpp).     *)
(*                                                                         *)
(* Strings are sequences of one-character strings, so that the text the    *)
(* cache writer produces and the text the declaration parser reads are the *)
(* same objects and padding, separators and trimming are computed, not     *)
(* assumed.                                                                *)
(***************************************************************************)
EXTENDS Integers, Sequences, FiniteSets, TLC

VARIABLES
  \* ---- parse_config run on its own (SpecParse) ----
  ptext,          \* the lines of the file being read
  pidx,           \* index of the next line std::getline will deliver
  pst,            \* the locals of parse_config: config, line_number, has_error
  ppc,            \* "scan" | "returned" | "exited" | "trapped"
  \* ---- ReckyCache::save followed by parse_config(path, true) (SpecCache) ----
  rmap,           \* the name->version mapping handed to save
  rfile,          \* the text save wrote, or NoFile
  rload,          \* what parse_config(for_cache) gave back
  rpc,            \* "fresh" | "saved" | "loaded" | "failed"
  \* ---- the environment of a resolution run ----
  world,          \* declaration files, package index content, vector capacity
  cacheFile,      \* .reky_cache in the workspace: NoFile or its lines
  depsDirs,       \* names whose install directory deps/<hash> exists
  nameFiles,      \* names whose sidecar deps/<hash>.name exists
  indexDir,       \* whether the local clone of the package index exists
  \* ---- the process: RekyManager and the frame of fetch_dependencies ----
  pc,             \* where the process is
  ctx,            \* RekyContext: first_run, index_fetched
  cache,          \* ReckyCache: cache, has_changed
  graph,          \* DepsGraph::graph
  allowed_paths,  \* the caller's vector of paths, by directory name
  capacity,       \* its capacity()
  i,              \* position of the range-for over allowed_paths
  last,           \* the end the range-for computed when it started
  stale,          \* the loop's iterators point into a freed buffer
  node,           \* path_filename of the path being processed
  config,         \* entries of the parsed config not yet iterated
  pending,        \* cache entries installed_if_needed has not visited yet
  depth,          \* invocations of RekyManager::fetch_dependencies so far
  exit,           \* what ended the process: <<>> or the error printed
  \* ---- what a run did, as seen from outside ----
  gitLog,         \* the git commands run_git issued in this run
  parsed,         \* declaration files read in this run: config and count
  runs,           \* resolution runs started
  startFile,      \* cacheFile when the run started
  writes,         \* times this run wrote cacheFile
  prev,           \* what the previous run ended with, if it returned
  gitFails        \* git commands that exited non-zero so far

parseVars == <<ptext, pidx, pst, ppc>>
tripVars  == <<rmap, rfile, rload, rpc>>
diskVars  == <<cacheFile, depsDirs, nameFiles, indexDir>>
procVars  == <<pc, ctx, cache, graph, allowed_paths, capacity, i, last, stale,
               node, config, pending, depth, exit>>
seenVars  == <<gitLog, parsed, runs, startFile, writes, prev, gitFails>>
runVars   == <<world, diskVars, procVars, seenVars>>
vars      == <<parseVars, tripVars, runVars>>

----------------------------------------------------------------------------
(* Bounds of the model.                                                    *)

\* longest file handed to parse_config in SpecParse
MaxLines == 3

\* resolution runs started one after the other on the same workspace
MaxRuns == 2

\* git commands that exit non-zero in one behaviour
MaxGitFailures == 1

----------------------------------------------------------------------------
(* Strings.                                                                *)

\* a file: absent, or present with its lines
NoFile      == [exists |-> FALSE, lines |-> <<>>]
File(lines) == [exists |-> TRUE, lines |-> lines]

\* std::string::npos is size_t(-1); -1 stands for it, so that pos + 2 is the
\* wrapped value 1 exactly as in unsigned arithmetic.
NPOS == -1

S1(ch)       == <<ch>>
Spaces(n)    == [k \in 1..n |-> " "]
SEP          == <<"=", "=">>
Decl(n, v)   == n \o SEP \o v

\* names and versions of the package universe
pa  == <<"a">>
pbb == <<"b", "b">>
pc3 == <<"c">>
v1  == <<"1">>
v2  == <<"2">>

RECURSIVE LStrip(_)
LStrip(s) == IF s # <<>> /\ Head(s) = " " THEN LStrip(Tail(s)) ELSE s

RECURSIVE RStrip(_)
RStrip(s) ==
  IF s # <<>> /\ s[Len(s)] = " " THEN RStrip(SubSeq(s, 1, Len(s) - 1)) ELSE s

\* utils::strip(line): trims white space at both ends, in place
strip(s) == RStrip(LStrip(s))

\* utils::sw(line, "#")
sw(s, ch) == s # <<>> /\ Head(s) = ch

\* line.find("=="): 0-based position of the first "==", or npos
find(s) ==
  LET hits == {k \in 1..(Len(s) - 1) : s[k] = "=" /\ s[k + 1] = "="}
  IN  IF hits = {} THEN NPOS
      ELSE (CHOOSE k \in hits : \A j \in hits : k <= j) - 1

\* line.substr(0, n); n = npos takes the whole string
substr0(s, n) == IF n = NPOS THEN s ELSE SubSeq(s, 1, n)

\* line.substr(from), from a 0-based position that is at most size()
substr(s, from) == SubSeq(s, from + 1, Len(s))

\* m[k] = v on an unordered_map
Put(m, k, v) == [x \in (DOMAIN m) \cup {k} |-> IF x = k THEN v ELSE m[x]]

EmptyMap == [x \in {} |-> <<>>]

\* no previous run, or one that did not return
NoPrev == [status |-> "none", cache |-> EmptyMap, nodes |-> {}, edges |-> {},
           failed |-> 0]

----------------------------------------------------------------------------
(* parse_config, src/src/reky.hpp 105-145.                                 *)

\* error(message, line, file) is declared [[noreturn]] and has no exit: it
\* prints and returns, which is undefined behaviour.  What the caller does
\* after the call is one of: the statements written after it run
\* ("returns"); the process dies at the call ("traps"); the statements after
\* the call in that branch were dropped as unreachable and control goes on
\* behind the if statement ("falls").
NoreturnOutcomes == {"returns", "traps", "falls"}

ParserStart ==
  [config |-> EmptyMap, line_number |-> 1, has_error |-> FALSE,
   reports |-> <<>>, status |-> "scanning"]

\* err.print(): the diagnostic carries the message and line_number
Report(st, msg) ==
  [st EXCEPT !.reports = Append(@, [line |-> st.line_number, msg |-> msg])]

\* a call of the 3-argument error made after the diagnostic was printed in
\* state r: every state the caller can be in afterwards.  fallen is where
\* control is when the rest of the branch (has_error = true; continue) is
\* skipped.
ErrorCall(r, fallen) ==
  UNION { CASE o = "returns" -> { [r EXCEPT !.has_error = TRUE] }
            [] o = "traps"   -> { [r EXCEPT !.status = "trapped"] }
            [] o = "falls"   -> fallen
          : o \in NoreturnOutcomes }

\* lines 127-139, entered with the position find gave
AfterFind(st, line, pos) ==
  LET name    == substr0(line, pos)
      version == substr(line, pos + 2)
      st1     == [st EXCEPT !.config = Put(@, name, version)]
      Bump(x) == [x EXCEPT !.line_number = @ + 1]
  IN  IF version = <<>>
        THEN ErrorCall(Report(st1, "version"), {Bump(Report(st1, "version"))})
      ELSE IF name = <<>>
        THEN ErrorCall(Report(st1, "name"), {Bump(Report(st1, "name"))})
      ELSE {Bump(st1)}

\* one iteration of the while loop, lines 116-140: the set of parser states
\* it can end in
ParseLine(st, raw) ==
  LET line == strip(raw)
      pos  == find(line)
  IN  IF sw(line, "#") \/ line = <<>> THEN {st}
      ELSE IF pos = NPOS
        THEN ErrorCall(Report(st, "format"),
                       AfterFind(Report(st, "format"), line, NPOS))
      ELSE AfterFind(st, line, pos)

\* lines 141-144: exit(1) if an error was recorded, else return config
Finish(st) ==
  IF st.status = "trapped" THEN st
  ELSE [st EXCEPT !.status = IF st.has_error THEN "exited" ELSE "returned"]

RECURSIVE Scan(_, _)
Scan(states, lines) ==
  IF lines = <<>> THEN states
  ELSE Scan(UNION { IF st.status = "trapped" THEN {st}
                    ELSE ParseLine(st, Head(lines)) : st \in states },
            Tail(lines))

\* parse_config on a file: every result the call can have
parse_config(file) ==
  IF ~file.exists THEN { [ParserStart EXCEPT !.status = "returned"] }
  ELSE { Finish(st) : st \in Scan({ParserStart}, file.lines) }

----------------------------------------------------------------------------
(* ReckyCache, src/src/reky.hpp 53-90.                                     *)

\* every order in which a range-for can walk an unordered_map with keys S
RECURSIVE Orders(_)
Orders(S) ==
  IF S = {} THEN {<<>>}
  ELSE UNION { {<<x>> \o t : t \in Orders(S \ {x})} : x \in S }

\* lines 59-62
max_key_size(m) ==
  IF DOMAIN m = {} THEN 0
  ELSE LET n == CHOOSE k \in DOMAIN m : \A j \in DOMAIN m : Len(j) <= Len(k)
       IN  Len(n)

\* lines 65-69: key, padding up to the longest key, " ==  ", value
CacheLine(key, value, width) ==
  key \o Spaces(width - Len(key)) \o <<" ", "=", "=", " ", " ">> \o value

\* save(file): the texts it can write, one per iteration order of the map
save(m) ==
  { File([k \in 1..Len(o) |-> CacheLine(o[k], m[o[k]], max_key_size(m))])
    : o \in Orders(DOMAIN m) }

\* never_has_package finds no name
never_has_package(c, name) == FALSE

has_package(c, name) == name \in DOMAIN c.cache

add_package(c, name, version) ==
  [cache |-> Put(c.cache, name, version), has_changed |-> TRUE]

\* keep_changed leaves the flag as it is
keep_changed(c) == c

reset_changed(c) == [c EXCEPT !.has_changed = FALSE]

----------------------------------------------------------------------------
(* SpecParse: parse_config stepping through one file, line by line.        *)

ParseLines ==
  { Decl(pa, v1), Decl(pbb, v2), <<" ">> \o Decl(pa, v2) \o <<" ">>,
    <<"#", "x">>, <<>>, <<"a", ":", "1">>, SEP \o v1, pa \o SEP, <<"x">> }

RECURSIVE SeqsUpTo(_, _)
SeqsUpTo(S, n) ==
  IF n = 0 THEN {<<>>}
  ELSE LET shorter == SeqsUpTo(S, n - 1)
       IN  shorter \cup {Append(s, x) : s \in {t \in shorter : Len(t) = n - 1}, x \in S}

ParseIdle ==
  /\ ptext = <<>> /\ pidx = 1 /\ pst = ParserStart /\ ppc = "off"

TripIdle ==
  /\ rmap = EmptyMap /\ rfile = NoFile /\ rload = EmptyMap /\ rpc = "off"

RunIdle ==
  /\ world = [root |-> NoFile, repo |-> EmptyMap, index |-> EmptyMap, capacity |-> 1]
  /\ cacheFile = NoFile /\ depsDirs = {} /\ nameFiles = {} /\ indexDir = FALSE
  /\ pc = "off"
  /\ ctx = [first_run |-> TRUE, index_fetched |-> FALSE]
  /\ cache = [cache |-> EmptyMap, has_changed |-> FALSE]
  /\ graph = EmptyMap
  /\ allowed_paths = <<>> /\ capacity = 1 /\ i = 1 /\ last = 0 /\ stale = FALSE
  /\ node = <<>> /\ config = EmptyMap /\ pending = {} /\ depth = 0 /\ exit = <<>>
  /\ gitLog = EmptyMap /\ parsed = EmptyMap /\ runs = 0 /\ startFile = NoFile
  /\ writes = 0 /\ prev = NoPrev /\ gitFails = 0

ParseInit ==
  /\ ptext \in SeqsUpTo(ParseLines, MaxLines)
  /\ pidx = 1
  /\ pst = ParserStart
  /\ ppc = "scan"
  /\ TripIdle
  /\ RunIdle

\* std::getline delivers a line and the loop body runs on it
ParseStep ==
  /\ ppc = "scan"
  /\ pidx <= Len(ptext)
  /\ \E st \in ParseLine(pst, ptext[pidx]) :
       /\ pst' = st
       /\ ppc' = IF st.status = "trapped" THEN "trapped" ELSE "scan"
  /\ pidx' = pidx + 1
  /\ UNCHANGED <<ptext, tripVars, runVars>>

\* std::getline fails at end of file: lines 141-144
ParseEnd ==
  /\ ppc = "scan"
  /\ pidx > Len(ptext)
  /\ pst' = Finish(pst)
  /\ ppc' = pst'.status
  /\ UNCHANGED <<ptext, pidx, tripVars, runVars>>

ParseNext == ParseStep \/ ParseEnd

SpecParse == ParseInit /\ [][ParseNext]_vars

----------------------------------------------------------------------------
(* SpecCache: a mapping is written by save and read back by                *)
(* parse_config(path, for_cache = true).                                   *)

TripNames    == {pa, pbb, <<"c", "d", "e">>}
TripVersions == {v1, <<"1", ".", "2">>}

TripInit ==
  /\ \E S \in SUBSET TripNames : rmap \in [S -> TripVersions]
  /\ rfile = NoFile
  /\ rload = EmptyMap
  /\ rpc = "fresh"
  /\ ParseIdle
  /\ RunIdle

\* save_cache(root): lines 73-76
TripSave ==
  /\ rpc = "fresh"
  /\ rfile' \in save(rmap)
  /\ rpc' = "saved"
  /\ UNCHANGED <<rmap, rload, parseVars, runVars>>

\* parse_config(reky_path, true): line 294
TripLoad ==
  /\ rpc = "saved"
  /\ \E r \in parse_config(rfile) :
       /\ rload' = r.config
       /\ rpc' = IF r.status = "returned" THEN "loaded" ELSE "failed"
  /\ UNCHANGED <<rmap, rfile, parseVars, runVars>>

TripNext == TripSave \/ TripLoad

SpecCache == TripInit /\ [][TripNext]_vars

----------------------------------------------------------------------------
(* The environment of RekyManager.                                        *)

Pkgs     == {pa, pbb, pc3}
Versions == {v1, v2}

\* the directory name of the caller's root path
RootName == <<"r">>

\* get_dep_folder(name), lines 248-250: utils::hash::hashString, taken to be
\* injective; the directory name is the name behind a mark no name carries
get_dep_folder(name) == <<"$">> \o name

IsDepFolder(dir) == dir # <<>> /\ Head(dir) = "$"
NameOfFolder(dir) == Tail(dir)

\* pkgs/<name>.json: absent from the index, or present with its "versions"
NoDescriptor         == [present |-> FALSE, versions |-> {}]
Descriptor(versions) == [present |-> TRUE, versions |-> versions]

RootFiles ==
  { NoFile,
    File(<<Decl(pa, v1)>>),
    File(<<<<"#", "x">>, Decl(pa, v1), <<>>, Decl(pbb, v1)>>),
    File(<<Decl(pa, v2), Decl(pa, v1)>>),
    File(<<Decl(pa, v1), <<"b", "b", ":", "1">>>>) }

\* the declaration file each package's repository ships
RepoFiles ==
  { [p \in Pkgs |-> CASE p = pa -> fa [] p = pbb -> fb
                      [] p = pc3 -> File(<<Decl(pa, v1)>>)]
    : fa \in {File(<<Decl(pbb, v2)>>), File(<<Decl(pc3, v1)>>)},
      fb \in {NoFile, File(<<Decl(pa, v2)>>), File(<<Decl(pc3, v1)>>)} }

\* the content of the package index repository
Indexes ==
  { [p \in Pkgs |-> Descriptor(Versions)],
    [p \in Pkgs |-> CASE p = pa  -> Descriptor(Versions)
                      [] p = pbb -> Descriptor({v1})
                      [] p = pc3 -> NoDescriptor] }

\* capacity() of the vector the caller passes in
Capacities == {1, 3}

Worlds ==
  [root : RootFiles, repo : RepoFiles, index : Indexes, capacity : Capacities]

\* <path>/sn.reky for a path of allowed_paths, by its directory name
DeclFile(dir) ==
  IF dir = RootName THEN world.root
  ELSE IF IsDepFolder(dir) /\ NameOfFolder(dir) \in depsDirs
            /\ NameOfFolder(dir) \in Pkgs
    THEN world.repo[NameOfFolder(dir)]
  ELSE NoFile

\* get_name_from_hash(hash), lines 198-208
get_name_from_hash(hash) ==
  IF IsDepFolder(hash) /\ NameOfFolder(hash) \in nameFiles
    THEN NameOfFolder(hash)
  ELSE hash

\* is_installed(name, version), lines 252-255
is_installed(name) == name \in depsDirs

\* get_package_data(name, version), lines 257-265: has_value()
has_package_data(name) ==
  indexDir /\ name \in Pkgs /\ world.index[name].present

\* install_any_version takes the requested version without looking it up
install_any_version(name, version) == version

\* lines 272-278: install_version after the loop over "versions"
install_version(name, version) ==
  IF version \in world.index[name].versions THEN version ELSE <<>>

\* push_front puts the new path before the others
push_front(paths, cap, p) ==
  [paths |-> <<p>> \o paths,
   cap   |-> IF Len(paths) < cap THEN cap ELSE IF cap = 0 THEN 1 ELSE 2 * cap,
   moved |-> Len(paths) >= cap]

\* allowed_paths.push_back(p): the vector and its capacity afterwards, and
\* whether the elements moved to a new buffer
push_back(paths, cap, p) ==
  [paths |-> Append(paths, p),
   cap   |-> IF Len(paths) < cap THEN cap ELSE IF cap = 0 THEN 1 ELSE 2 * cap,
   moved |-> Len(paths) >= cap]

RECURSIVE push_all(_, _, _)
push_all(paths, cap, ps) ==
  IF ps = <<>> THEN [paths |-> paths, cap |-> cap]
  ELSE LET r == push_back(paths, cap, Head(ps))
       IN  push_all(r.paths, r.cap, Tail(ps))

\* the outcome of run_git, lines 238-246: the exit status is 0 or not
GitOutcomes == IF gitFails < MaxGitFailures THEN {TRUE, FALSE} ELSE {TRUE}

----------------------------------------------------------------------------
(* A resolution run: fetch_dependencies(ctx, allowed_paths), lines 318-323, *)
(* and RekyManager::fetch_dependencies, lines 161-196.                     *)

\* one call of run_git: the command, what it was about, and whether it
\* exited with status 0
Git(cmd, what, ok) == [cmd |-> cmd, what |-> what, ok |-> ok]

\* gitLog counts the calls of run_git by command
Logged(log, g) == Put(log, g, IF g \in DOMAIN log THEN log[g] + 1 ELSE 1)

\* the edges of a graph: who requires whom
Edges(g) == UNION { {<<n, g[n][k]>> : k \in 1..Len(g[n])} : n \in DOMAIN g }

\* git clone commands this run issued for a package
Clones(name) ==
  LET Count(g) == IF g \in DOMAIN gitLog THEN gitLog[g] ELSE 0
  IN  Count(Git("clone", name, TRUE)) + Count(Git("clone", name, FALSE))

Cloned == {g.what : g \in {h \in DOMAIN gitLog : h.cmd = "clone"}}

Init ==
  /\ world \in Worlds
  /\ cacheFile = NoFile /\ depsDirs = {} /\ nameFiles = {} /\ indexDir = FALSE
  /\ pc = "idle"
  /\ ctx = [first_run |-> TRUE, index_fetched |-> FALSE]
  /\ cache = [cache |-> EmptyMap, has_changed |-> FALSE]
  /\ graph = EmptyMap
  /\ allowed_paths = <<>> /\ capacity = 1 /\ i = 1 /\ last = 0 /\ stale = FALSE
  /\ node = <<>> /\ config = EmptyMap /\ pending = {} /\ depth = 0 /\ exit = <<>>
  /\ gitLog = EmptyMap /\ parsed = EmptyMap /\ runs = 0 /\ startFile = NoFile
  /\ writes = 0 /\ prev = NoPrev /\ gitFails = 0
  /\ ParseIdle
  /\ TripIdle

\* the process ends with the given error; nothing else is touched
Die(why) ==
  /\ pc' = "aborted"
  /\ exit' = why

\* error_saving is error with the cache persisted on the way out
error_saving(message) ==
  /\ Die(message)
  /\ cacheFile' \in save(cache.cache)
  /\ writes' = writes + 1

\* error(message), lines 98-103: prints and calls exit(1); the cache file is
\* not written
error(message) ==
  /\ Die(message)
  /\ UNCHANGED <<cacheFile, writes>>

\* versions_same never sees a difference
versions_same(installed_version, version) == FALSE

\* line 184: installed_version != version
versions_differ(installed_version, version) == installed_version # version

\* how a call of parse_config that did not return ended the process
ParseDeath(r) == IF r.status = "exited" THEN <<"format">> ELSE <<"crash">>

\* the caller builds the vector of root paths and calls fetch_dependencies:
\* new RekyManager(ctx), line 319, and the call of line 320
StartRun ==
  /\ pc \in {"idle", "done", "aborted"}
  /\ runs < MaxRuns
  /\ runs' = runs + 1
  /\ prev' = IF pc = "done"
               THEN [status |-> pc, cache |-> cache.cache, nodes |-> DOMAIN graph,
                     edges |-> Edges(graph), failed |-> gitFails]
               ELSE NoPrev
  /\ ctx' = [first_run |-> TRUE, index_fetched |-> FALSE]
  /\ cache' = [cache |-> EmptyMap, has_changed |-> FALSE]
  /\ graph' = EmptyMap
  /\ allowed_paths' = <<RootName>>
  /\ capacity' = world.capacity
  /\ depth' = 1
  /\ pc' = "enter"
  /\ exit' = <<>>
  /\ i' = 1 /\ last' = 0 /\ stale' = FALSE
  /\ node' = <<>> /\ config' = EmptyMap /\ pending' = {}
  /\ gitLog' = EmptyMap /\ parsed' = EmptyMap /\ startFile' = cacheFile /\ writes' = 0
  /\ UNCHANGED <<world, diskVars, gitFails, parseVars, tripVars>>

\* the range-for of line 166 starts: begin and end are taken
StartLoop(paths) ==
  /\ i' = 1
  /\ last' = Len(paths)
  /\ stale' = FALSE
  /\ pc' = "loop"

\* lines 162-165 on the first invocation: fetch_cache, lines 291-303
FetchCache ==
  /\ pc = "enter"
  /\ ctx.first_run
  /\ \E r \in parse_config(cacheFile) :
       IF r.status # "returned"
         THEN /\ Die(ParseDeath(r))
              /\ UNCHANGED <<ctx, cache, allowed_paths, capacity, i, last, stale>>
         ELSE \E o \in Orders(DOMAIN r.config) :
                LET dirs == [k \in 1..Len(o) |-> get_dep_folder(o[k])]
                    v    == push_all(allowed_paths, capacity, dirs)
                IN  /\ allowed_paths' = v.paths
                    /\ capacity' = v.cap
                    /\ cache' = [cache |-> r.config, has_changed |-> FALSE]
                    /\ ctx' = [ctx EXCEPT !.first_run = FALSE]
                    /\ StartLoop(v.paths)
                    /\ UNCHANGED exit
  /\ UNCHANGED <<world, diskVars, graph, node, config, pending, depth, seenVars,
                 parseVars, tripVars>>

\* lines 162-165 on a recursive invocation: first_run is false
Reenter ==
  /\ pc = "enter"
  /\ ~ctx.first_run
  /\ StartLoop(allowed_paths)
  /\ UNCHANGED <<world, diskVars, ctx, cache, graph, allowed_paths, capacity, node,
                 config, pending, depth, exit, seenVars, parseVars, tripVars>>

\* reading the element the loop's iterator points at.  After push_back moved
\* the vector the iterator dangles: the read gives the old value, a
\* moved-from (empty) path, or kills the process.
DanglingOutcomes == {"intact", "moved", "crash"}

PathReads(dir) ==
  IF ~stale THEN {[how |-> "valid", dir |-> dir]}
  ELSE {[how |-> h, dir |-> IF h = "intact" THEN dir ELSE <<>>]
        : h \in DanglingOutcomes}

\* the declaration files a read path can lead to; the empty path makes
\* parse_config open sn.reky in the working directory, which is the root
\* project or is not
DeclFiles(read) ==
  IF read.how = "moved" THEN {NoFile, world.root} ELSE {DeclFile(read.dir)}

Noted(dir, cfg) ==
  Put(parsed, dir,
      [config |-> cfg,
       times |-> IF dir \in DOMAIN parsed THEN parsed[dir].times + 1 ELSE 1])

\* lines 166-174: the loop takes the next path, names its node, parses its
\* declaration file and resets the node's edge list
ParsePath ==
  /\ pc = "loop"
  /\ i <= last
  /\ \E read \in PathReads(allowed_paths[i]) :
       IF read.how = "crash"
         THEN /\ Die(<<"crash">>)
              /\ UNCHANGED <<graph, node, config, i, parsed>>
         ELSE \E f \in DeclFiles(read) : \E r \in parse_config(f) :
                IF r.status # "returned"
                  THEN /\ Die(ParseDeath(r))
                       /\ UNCHANGED <<graph, node, config, i, parsed>>
                  ELSE LET path_filename == get_name_from_hash(read.dir)
                       IN  /\ node' = path_filename
                           /\ graph' = Put(graph, path_filename, <<>>)
                           /\ config' = r.config
                           /\ parsed' = IF f.exists THEN Noted(read.dir, r.config)
                                         ELSE parsed
                           /\ IF DOMAIN r.config = {}
                                THEN i' = i + 1 /\ pc' = "loop"
                                ELSE i' = i /\ pc' = "entries"
                           /\ UNCHANGED exit
  /\ UNCHANGED <<world, diskVars, ctx, cache, allowed_paths, capacity, last, stale,
                 pending, depth, gitLog, runs, startFile, writes, prev, gitFails,
                 parseVars, tripVars>>

\* lines 175-188 for one entry of config
ResolveEntry ==
  /\ pc = "entries"
  /\ \E name \in DOMAIN config :
       LET version == config[name]
           rest    == [x \in (DOMAIN config) \ {name} |-> config[x]]
           edges   == Put(graph, node, Append(graph[node], name))
           v       == push_back(allowed_paths, capacity, get_dep_folder(name))
           more    == IF DOMAIN rest = {} THEN /\ i' = i + 1 /\ pc' = "loop"
                                           ELSE /\ i' = i /\ pc' = "entries"
       IN  /\ graph' = edges
           /\ config' = rest
           /\ IF ~has_package(cache, name)
                THEN /\ allowed_paths' = v.paths
                     /\ capacity' = v.cap
                     /\ stale' = (stale \/ v.moved)
                     /\ cache' = add_package(cache, name, version)
                     /\ more
                     /\ UNCHANGED <<exit, cacheFile, writes>>
              ELSE IF versions_differ(cache.cache[name], version)
                THEN /\ error(<<"conflict", name, cache.cache[name], version>>)
                     /\ UNCHANGED <<allowed_paths, capacity, stale, cache, i>>
              ELSE /\ more
                   /\ UNCHANGED <<allowed_paths, capacity, stale, cache, exit,
                                  cacheFile, writes>>
  /\ UNCHANGED <<world, depsDirs, nameFiles, indexDir, ctx, last, node, pending,
                 depth, gitLog, parsed, runs, startFile, prev, gitFails,
                 parseVars, tripVars>>


\* refetch_package_index refreshes the index whether or not it was fetched
refetch_package_index ==
  \E ok \in GitOutcomes :
    /\ ctx' = [ctx EXCEPT !.index_fetched = TRUE]
    /\ indexDir' = (indexDir \/ ok)
    /\ gitLog' = Logged(gitLog,
                        Git(IF indexDir THEN "pull" ELSE "index", <<>>, ok))
    /\ gitFails' = IF ok THEN gitFails ELSE gitFails + 1

\* get_package_index, lines 219-231, at the head of installed_if_needed
get_package_index ==
  IF ctx.index_fetched
    THEN UNCHANGED <<ctx, indexDir, gitLog, gitFails>>
    ELSE \E ok \in GitOutcomes :
           /\ ctx' = [ctx EXCEPT !.index_fetched = TRUE]
           /\ indexDir' = (indexDir \/ ok)
           /\ gitLog' = Logged(gitLog,
                               Git(IF indexDir THEN "pull" ELSE "index", <<>>, ok))
           /\ gitFails' = IF ok THEN gitFails ELSE gitFails + 1

\* line 190, after the loop over allowed_paths: a changed cache calls
\* installed_if_needed, an unchanged one returns
EndPass ==
  /\ pc = "loop"
  /\ i > last
  /\ IF cache.has_changed
       THEN /\ get_package_index
            /\ pending' = DOMAIN cache.cache
            /\ pc' = "install"
       ELSE /\ pc' = "return"
            /\ UNCHANGED <<ctx, indexDir, gitLog, gitFails, pending>>
  /\ UNCHANGED <<world, cacheFile, depsDirs, nameFiles, cache, graph, allowed_paths,
                 capacity, i, last, stale, node, config, depth, exit, parsed, runs,
                 startFile, writes, prev, parseVars, tripVars>>

\* install_checked is install with the exit status of git looked at: a
\* clone that fails ends the process
install_checked(name, version) ==
  IF ~has_package_data(name)
    THEN /\ error(<<"package not found", name>>)
         /\ UNCHANGED <<depsDirs, nameFiles, gitLog, gitFails>>
  ELSE IF install_version(name, version) = <<>>
    THEN /\ error(<<"version not found", version, name>>)
         /\ UNCHANGED <<depsDirs, nameFiles, gitLog, gitFails>>
  ELSE \E ok \in GitOutcomes :
         /\ nameFiles' = nameFiles \cup {name}
         /\ depsDirs' = IF ok THEN depsDirs \cup {name} ELSE depsDirs
         /\ gitLog' = Logged(gitLog, Git("clone", name, ok))
         /\ gitFails' = IF ok THEN gitFails ELSE gitFails + 1
         /\ IF ok THEN UNCHANGED <<pc, exit, cacheFile, writes>>
                  ELSE error(<<"git failed", name>>)

\* install(name, version), lines 267-289
install(name, version) ==
  IF ~has_package_data(name)
    THEN /\ error(<<"package not found", name>>)
         /\ UNCHANGED <<depsDirs, nameFiles, gitLog, gitFails>>
  ELSE IF install_version(name, version) = <<>>
    THEN /\ error(<<"version not found", version, name>>)
         /\ UNCHANGED <<depsDirs, nameFiles, gitLog, gitFails>>
  ELSE \E ok \in GitOutcomes :
         /\ nameFiles' = nameFiles \cup {name}
         /\ depsDirs' = IF ok THEN depsDirs \cup {name} ELSE depsDirs
         /\ gitLog' = Logged(gitLog, Git("clone", name, ok))
         /\ gitFails' = IF ok THEN gitFails ELSE gitFails + 1
         /\ UNCHANGED <<pc, exit, cacheFile, writes>>

\* one iteration of the loop of installed_if_needed, lines 212-216
InstallOne ==
  /\ pc = "install"
  /\ \E name \in pending :
       /\ pending' = pending \ {name}
       /\ IF is_installed(name)
            THEN UNCHANGED <<depsDirs, nameFiles, gitLog, gitFails, pc, exit,
                             cacheFile, writes>>
            ELSE install(name, cache.cache[name])
  /\ UNCHANGED <<world, indexDir, ctx, cache, graph, allowed_paths,
                 capacity, i, last, stale, node, config, depth, parsed, runs,
                 startFile, prev, parseVars, tripVars>>

\* InstallDoneSaving writes the cache file after the installs of a pass
InstallDoneSaving ==
  /\ pc = "install"
  /\ pending = {}
  /\ cache' = reset_changed(cache)
  /\ depth' = depth + 1
  /\ pc' = "enter"
  /\ cacheFile' \in save(cache.cache)
  /\ writes' = writes + 1
  /\ UNCHANGED <<world, depsDirs, nameFiles, indexDir, ctx, graph, allowed_paths,
                 capacity, i, last, stale, node, config, pending, exit, gitLog,
                 parsed, runs, startFile, prev, gitFails, parseVars, tripVars>>

\* lines 192-193: reset_changed and the recursive call
InstallDone ==
  /\ pc = "install"
  /\ pending = {}
  /\ cache' = reset_changed(cache)
  /\ depth' = depth + 1
  /\ pc' = "enter"
  /\ UNCHANGED <<world, diskVars, ctx, graph, allowed_paths, capacity, i, last, stale,
                 node, config, pending, exit, seenVars, parseVars, tripVars>>

\* line 195 returns through every frame; save_cache, line 321
Return ==
  /\ pc = "return"
  /\ cacheFile' \in save(cache.cache)
  /\ writes' = writes + 1
  /\ pc' = "done"
  /\ UNCHANGED <<world, depsDirs, nameFiles, indexDir, ctx, cache, graph,
                 allowed_paths, capacity, i, last, stale, node, config, pending,
                 depth, exit, gitLog, parsed, runs, startFile, prev, gitFails,
                 parseVars, tripVars>>

Next ==
  \/ StartRun
  \/ FetchCache
  \/ Reenter
  \/ ParsePath
  \/ ResolveEntry
  \/ EndPass
  \/ InstallOne
  \/ InstallDone
  \/ Return

Spec == Init /\ [][Next]_vars

----------------------------------------------------------------------------
(* SpecSeeded: runs that start on the cache file an earlier resolution     *)
(* wrote, with declaration files that may have been edited since.          *)

\* the cache of the earlier resolution
SeedMaps ==
  { EmptyMap,
    [n \in {pa} |-> v1],
    [n \in {pa, pbb} |-> v1] }

\* the root's declaration file now; a declaration may be written the way
\* save writes it, with blanks around the separator
SeededRoots ==
  { NoFile,
    File(<<Decl(pa, v1)>>),
    File(<<CacheLine(pa, v1, 1)>>),
    File(<<CacheLine(pa, v2, 1)>>) }

SeededWorlds ==
  [root : SeededRoots,
   repo : {[p \in Pkgs |-> IF p = pa THEN File(<<Decl(pc3, v1)>>) ELSE NoFile]},
   index : {[p \in Pkgs |-> Descriptor(Versions)]},
   capacity : Capacities]

\* the earlier resolution wrote the cache file with save, wrote the .name
\* file of every package of its cache, and cloned them (or git failed, or the
\* directories were removed since)
SeedInit ==
  /\ world \in SeededWorlds
  /\ \E m \in SeedMaps :
       /\ cacheFile \in save(m)
       /\ depsDirs \in {{}, DOMAIN m}
       /\ nameFiles = DOMAIN m
       /\ indexDir = (DOMAIN m # {})
  /\ pc = "idle"
  /\ ctx = [first_run |-> TRUE, index_fetched |-> FALSE]
  /\ cache = [cache |-> EmptyMap, has_changed |-> FALSE]
  /\ graph = EmptyMap
  /\ allowed_paths = <<>> /\ capacity = 1 /\ i = 1 /\ last = 0 /\ stale = FALSE
  /\ node = <<>> /\ config = EmptyMap /\ pending = {} /\ depth = 0 /\ exit = <<>>
  /\ gitLog = EmptyMap /\ parsed = EmptyMap /\ runs = 0 /\ startFile = NoFile
  /\ writes = 0 /\ prev = NoPrev /\ gitFails = 0
  /\ ParseIdle
  /\ TripIdle

SpecSeeded == SeedInit /\ [][Next]_vars

----------------------------------------------------------------------------
(* What the declaration files of a world say, read line by line and        *)
(* independently of any run.                                               *)

\* the (name, version) pairs the lines of a file declare
LinePairs(file) ==
  IF ~file.exists THEN {}
  ELSE UNION { UNION { {<<n, r.config[n]>> : n \in DOMAIN r.config}
                       : r \in parse_config(File(<<file.lines[k]>>)) }
               : k \in 1..Len(file.lines) }

\* no line of the file is malformed
WellFormed(file) ==
  \A r \in parse_config(file) : r.status = "returned" /\ r.reports = <<>>

RECURSIVE Closure(_)
Closure(S) ==
  LET more == S \cup UNION { {q[1] : q \in LinePairs(world.repo[p])}
                             : p \in S \cap Pkgs }
  IN  IF more = S THEN S ELSE Closure(more)

\* the packages reachable from the root through declaration files
Reachable == Closure({q[1] : q \in LinePairs(world.root)})

Requirements ==
  LinePairs(world.root)
    \cup UNION { LinePairs(world.repo[p]) : p \in Reachable \cap Pkgs }

ConflictFree == \A q, r \in Requirements : q[1] = r[1] => q[2] = r[2]

Published ==
  \A q \in Requirements :
    /\ q[1] \in Pkgs
    /\ world.index[q[1]].present
    /\ q[2] \in world.index[q[1]].versions

GoodWorld ==
  /\ WellFormed(world.root)
  /\ \A p \in Reachable \cap Pkgs : WellFormed(world.repo[p])
  /\ ConflictFree
  /\ Published

DeclaredEdges ==
  {<<RootName, q[1]>> : q \in LinePairs(world.root)}
    \cup UNION { {<<p, q[1]>> : q \in LinePairs(world.repo[p])}
                 : p \in Reachable \cap Pkgs }

CacheEntries == {<<n, cache.cache[n]>> : n \in DOMAIN cache.cache}

Ended == pc \in {"done", "aborted"}

----------------------------------------------------------------------------
(* C1 *)

ClosureReached ==
  /\ pc = "done"
  /\ CacheEntries = Requirements
  /\ DOMAIN cache.cache \subseteq depsDirs
  /\ DeclaredEdges \subseteq Edges(graph)

\* C1: in a conflict-free world whose requirements are all published, a
\* first run (no cache file, nothing installed) in which every git command
\* succeeds ends at the fixpoint with the cache holding exactly the
\* reachable packages at their declared versions, every one of them
\* installed, and the graph holding every declared edge.
C1_TransitiveClosure ==
  (runs = 1 /\ GoodWorld /\ gitFails = 0 /\ Ended) => ClosureReached

\* C1, for the runs in which no read through a dangling iterator killed the
\* process: there the closure is reached.
C1_ClosureUnlessCrash ==
  (runs = 1 /\ GoodWorld /\ gitFails = 0 /\ Ended /\ exit # <<"crash">>)
    => ClosureReached

----------------------------------------------------------------------------
(* C2 *)

\* two declaration files parsed in this run declare n with different versions
Disagree(n) ==
  \E d, e \in DOMAIN parsed :
    /\ n \in DOMAIN parsed[d].config
    /\ n \in DOMAIN parsed[e].config
    /\ parsed[d].config[n] # parsed[e].config[n]

Disagreement == \E d \in DOMAIN parsed : \E n \in DOMAIN parsed[d].config : Disagree(n)

\* the process ended with a version-conflict error that names a package and
\* two different versions that parsed declaration files give it
ConflictReported ==
  /\ pc = "aborted"
  /\ Len(exit) = 4
  /\ exit[1] = "conflict"
  /\ exit[3] # exit[4]
  /\ \E d, e \in DOMAIN parsed :
       /\ exit[2] \in DOMAIN parsed[d].config
       /\ exit[2] \in DOMAIN parsed[e].config
       /\ parsed[d].config[exit[2]] = exit[3]
       /\ parsed[e].config[exit[2]] = exit[4]

\* C2: once two declaration files parsed in the same run disagree on the
\* version of a package, the run is still inside the loop over the entries
\* of the second file or has aborted with a version-conflict error naming a
\* package and both versions; it never gets to the end of the pass, the
\* install step, the return or the write of the cache file.
C2_ConflictAborts ==
  Disagreement => (pc = "entries" \/ ConflictReported)

C2_Witness == Disagreement /\ ConflictReported /\ exit[2] = pa

----------------------------------------------------------------------------
(* C3 *)

\* the distinct packages the run has discovered
N == Cardinality(DOMAIN cache.cache)

\* C3 as stated: a run in a conflict-free world that reaches the fixpoint
\* over N >= 1 packages, every git command succeeding, took at most N
\* invocations of RekyManager::fetch_dependencies.
C3_AtMostNPasses ==
  (pc = "done" /\ GoodWorld /\ gitFails = 0 /\ N >= 1) => depth <= N

\* where a pass stands: its phase, the paths the loop of line 166 has left,
\* whether the next path is still to be parsed, the entries of config left,
\* and the names installed_if_needed has left
Rank ==
  << CASE pc = "enter" -> 4
       [] pc \in {"loop", "entries"} -> 3
       [] pc = "install" -> 2
       [] pc = "return" -> 1
       [] OTHER -> 0,
     last + 1 - i,
     IF pc = "loop" THEN 1 ELSE 0,
     Cardinality(DOMAIN config),
     Cardinality(pending) >>

\* the lexicographic order on ranks
Less(r, s) ==
  \E k \in 1..Len(r) : r[k] < s[k] /\ \A j \in 1..(k - 1) : r[j] = s[j]

\* C3 amended: after every step the number of invocations is at most N + 1
\* (each invocation but the last registers a new package), and every run
\* terminates: a step of a run either is the recursive call, which is one
\* invocation more, or takes the pass strictly down in rank.
C3_AtMostNPlusOnePasses ==
  [][ /\ depth' <= N' + 1
      /\ runs' = runs =>
            IF depth' # depth THEN depth' = depth + 1 /\ pc' = "enter"
            ELSE Less(Rank', Rank) ]_vars

C3_Witness == pc = "done" /\ N = 3 /\ depth = 4

----------------------------------------------------------------------------
(* C4 *)

\* C4: within one run git clone is issued at most once per package name,
\* and a first run in a conflict-free world that reaches the fixpoint has
\* cloned every package of its cache exactly once.
C4_InstallOnce ==
  /\ \A n \in Cloned : Clones(n) <= 1
  /\ (pc = "done" /\ runs = 1 /\ GoodWorld)
       => \A n \in DOMAIN cache.cache : Clones(n) = 1

\* C4, for the runs in which no git command exits non-zero.
C4_InstallOnceIfGitSucceeds ==
  gitFails = 0 => C4_InstallOnce

----------------------------------------------------------------------------
(* C5 *)

\* C5: a second run on the cache file and install directories a successful
\* first run left, with the same declaration files and every git command
\* succeeding, ends at the fixpoint with the first run's cache, the first
\* run's graph, and no clone issued.
C5_Idempotent ==
  (runs = 2 /\ prev.status = "done" /\ gitFails = 0 /\ Ended /\ exit # <<"crash">>)
    => /\ pc = "done"
       /\ cache.cache = prev.cache
       /\ DOMAIN graph = prev.nodes
       /\ Edges(graph) = prev.edges
       /\ Cloned = {}

----------------------------------------------------------------------------
(* C6 *)

\* C6: what parse_config(path, for_cache = true) reads from the text save
\* wrote is the mapping that was saved.
C6_CacheRoundTrip ==
  (rpc \in {"loaded", "failed"}) => (rpc = "loaded" /\ rload = rmap)

----------------------------------------------------------------------------
(* C7 *)

AbortedByError ==
  /\ pc = "aborted"
  /\ exit[1] \in {"conflict", "package not found", "version not found"}

\* C7: a run that aborted with a version-conflict or a not-found error has
\* not written the cache file: it is what it was when the run started.
C7_NoPartialPersistence ==
  AbortedByError => (writes = 0 /\ cacheFile = startFile)

C7_Witness ==
  AbortedByError /\ exit[1] = "package not found" /\ startFile.exists /\ depsDirs # {}

----------------------------------------------------------------------------
(* C8 *)

\* the name the loop of installed_if_needed visits in this step
Visited == CHOOSE n \in pending : n \notin pending'

InstallAttempt ==
  /\ pc = "install"
  /\ pending' # pending
  /\ Visited \notin depsDirs

DescriptorPresent(n) == indexDir /\ n \in Pkgs /\ world.index[n].present

\* C8: an install attempted for a package without a descriptor in the index
\* aborts the run with the not-found error naming the package; one
\* attempted for a version missing from the descriptor's versions aborts it
\* with the not-found error naming the version; neither issues a git
\* command.
C8_MissingIndexEntry ==
  [][ InstallAttempt =>
        /\ ~DescriptorPresent(Visited)
             => /\ pc' = "aborted"
                /\ exit' = <<"package not found", Visited>>
                /\ gitLog' = gitLog
        /\ (DescriptorPresent(Visited)
              /\ cache.cache[Visited] \notin world.index[Visited].versions)
             => /\ pc' = "aborted"
                /\ exit' = <<"version not found", cache.cache[Visited], Visited>>
                /\ gitLog' = gitLog ]_vars

C8_Witness ==
  /\ pc = "aborted"
  /\ exit = <<"version not found", v2, pbb>>
  /\ Clones(pbb) = 0
  /\ pa \in depsDirs

----------------------------------------------------------------------------
(* C9 *)

\* the entry of config the loop of lines 175-188 takes in this step
Taken == CHOOSE n \in DOMAIN config : n \notin DOMAIN config'

\* C9: within a run a name registered in the cache keeps its version, and an
\* entry that requires another version of a registered name aborts the run
\* with the version-conflict error.
C9_OneVersionPerName ==
  [][ runs' = runs =>
        /\ \A n \in DOMAIN cache.cache :
             n \in DOMAIN cache'.cache /\ cache'.cache[n] = cache.cache[n]
        /\ (/\ pc = "entries"
            /\ DOMAIN config' # DOMAIN config
            /\ Taken \in DOMAIN cache.cache
            /\ cache.cache[Taken] # config[Taken])
             => (pc' = "aborted" /\ exit'[1] = "conflict") ]_vars

C9_Witness ==
  /\ pc = "aborted"
  /\ exit[1] = "conflict"
  /\ cache.cache[exit[2]] = exit[3]
  /\ exit[4] # exit[3]

----------------------------------------------------------------------------
(* C10 *)

\* a line parse_config has to reject: neither blank nor a comment, and
\* without separator, with nothing before it or with nothing after it
Malformed(raw) ==
  LET line == strip(raw)
  IN  /\ line # <<>>
      /\ Head(line) # "#"
      /\ \/ find(line) = NPOS
         \/ find(line) = 0
         \/ find(line) + 2 = Len(line)

MalformedLines == {k \in 1..Len(ptext) : Malformed(ptext[k])}

ParseEnded == ppc \in {"returned", "exited", "trapped"}

\* C10: parse_config on a file with k >= 1 malformed lines ends only after
\* the last line, with k diagnostics printed, by exit(1); it does not return
\* a mapping.
C10_CollectAllThenAbort ==
  (ParseEnded /\ MalformedLines # {})
    => /\ ppc = "exited"
       /\ pidx > Len(ptext)
       /\ Len(pst.reports) = Cardinality(MalformedLines)

----------------------------------------------------------------------------
(* C11 *)

\* the position in the file of its k-th malformed line
KthMalformed(k) ==
  CHOOSE n \in MalformedLines :
    Cardinality({m \in MalformedLines : m <= n}) = k

\* C11: when parse_config has scanned the whole file and printed one
\* diagnostic per malformed line, the line number of the k-th diagnostic is
\* the 1-based position of the k-th malformed line in the file, blank lines,
\* comment lines and earlier malformed lines counted.
C11_ReportedLineNumbers ==
  (ppc = "exited" /\ Len(pst.reports) = Cardinality(MalformedLines))
    => \A k \in 1..Len(pst.reports) : pst.reports[k].line = KthMalformed(k)

----------------------------------------------------------------------------
(* C12 *)

\* the git commands this run issued to clone or pull the package index
Refreshes ==
  LET Count(g) == IF g \in DOMAIN gitLog THEN gitLog[g] ELSE 0
  IN  Count(Git("index", <<>>, TRUE)) + Count(Git("index", <<>>, FALSE))
        + Count(Git("pull", <<>>, TRUE)) + Count(Git("pull", <<>>, FALSE))

\* C12: a run never has refreshed the package index more than once, and a
\* step that looks a package up in the index (and clones it, if the lookup
\* succeeds) is taken with the one refresh of the run already issued.
C12_IndexRefreshOnceAndFirst ==
  [][ /\ Refreshes' <= 1
      /\ InstallAttempt => (ctx.index_fetched /\ Refreshes = 1) ]_vars

C12_Witness ==
  /\ depth >= 3
  /\ Refreshes = 1
  /\ Cardinality(Cloned) >= 2
  /\ pc = "done"

----------------------------------------------------------------------------
(* C13 *)

\* the elements a step appended to the worklist
Appended ==
  {allowed_paths'[k] : k \in (Len(allowed_paths) + 1)..Len(allowed_paths')}

\* the names a step registered in the cache
Registered == DOMAIN cache'.cache \ DOMAIN cache.cache

\* C13: a step of a run leaves the entries of the worklist where they are
\* and appends the install directories of exactly the names it registers
\* in the cache (from the cache file or by add_package), each once; no
\* element occurs twice in the worklist.
C13_WorklistAppendOnly ==
  [][ runs' = runs =>
        /\ Len(allowed_paths') >= Len(allowed_paths)
        /\ SubSeq(allowed_paths', 1, Len(allowed_paths)) = allowed_paths
        /\ Appended = {get_dep_folder(n) : n \in Registered}
        /\ Len(allowed_paths') - Len(allowed_paths) = Cardinality(Registered)
        /\ \A j, k \in 1..Len(allowed_paths') :
             allowed_paths'[j] = allowed_paths'[k] => j = k ]_vars

C13_Witness ==
  /\ runs = 2
  /\ startFile.exists
  /\ Len(startFile.lines) >= 2
  /\ Len(allowed_paths) >= 4
  /\ Len(allowed_paths) = 1 + Cardinality(DOMAIN cache.cache)

----------------------------------------------------------------------------
(* C15 *)

InRun == pc \in {"enter", "loop", "entries", "install", "return"}

\* C15: while a run is under way the cache file has not been written; a run
\* that returned has written it exactly once, after its last pass and with
\* no install left to do, and the file is the text of the final in-memory
\* cache.
C15_PersistOnceAtFixpoint ==
  /\ InRun => (writes = 0 /\ cacheFile = startFile)
  /\ pc = "done" => /\ writes = 1
                    /\ cacheFile \in save(cache.cache)
                    /\ ~cache.has_changed
                    /\ pending = {}

C15_Witness ==
  /\ pc = "done"
  /\ depth >= 3
  /\ writes = 1
  /\ Cardinality(Cloned) >= 2
  /\ cacheFile # startFile

----------------------------------------------------------------------------
(* C16 *)

\* C16: while the iterators of the pass are valid and no git command has
\* failed, the declaration file found in the install directory of a package
\* has been parsed at most once in the run; only the root's file is parsed
\* again in later passes.
C16_ParseOnce ==
  (~stale /\ gitFails = 0)
    => \A d \in DOMAIN parsed : IsDepFolder(d) => parsed[d].times <= 1

----------------------------------------------------------------------------
(* C14 *)

\* C14: when a run in which no git command failed has reached the fixpoint
\* and returned, the install directory of every name of its cache, the
\* names seeded from the cache file included, is on disk.
C14_InstalledAtFixpoint ==
  (pc = "done" /\ gitFails = 0) => DOMAIN cache.cache \subseteq depsDirs

----------------------------------------------------------------------------
(* C17 *)

\* C17: a run that aborted with the version-conflict error for a package
\* has parsed two declaration files that give that package different
\* versions; a declaration that differs only from the version the cache
\* file seeded raises no conflict.
C17_ConflictOnlyBetweenRequirers ==
  (pc = "aborted" /\ Len(exit) = 4 /\ exit[1] = "conflict") => Disagree(exit[2])

----------------------------------------------------------------------------
(* C18 *)

\* C18: in the graph of a run that returned, every node key is the
\* directory name of the root path or the name of a package of the cache,
\* and none is the name of an install directory.
C18_GraphNodeIdentity ==
  pc = "done"
    => \A k \in DOMAIN graph :
         /\ (k = RootName \/ k \in DOMAIN cache.cache)
         /\ ~IsDepFolder(k)

----------------------------------------------------------------------------
(* C19 *)

\* the clone of the package index failed in this run
IndexCloneFailed == Git("index", <<>>, FALSE) \in DOMAIN gitLog

\* the packages a clone of this run failed for
FailedClones == {g.what : g \in {h \in DOMAIN gitLog : h.cmd = "clone" /\ ~h.ok}}

\* a first run in a conflict-free, published world ended, and not by a read
\* through a dangling iterator
GoodRunEnded == Ended /\ runs = 1 /\ exit # <<"crash">> /\ GoodWorld

\* C19 as stated: no git command that exits non-zero, the clone of the
\* index included, keeps such a run from the fixpoint, and the cache file
\* it writes lists the packages whose clone failed.
C19_GitFailureNeverAborts ==
  GoodRunEnded
    => /\ pc = "done"
       /\ cacheFile \in save(cache.cache)
       /\ FailedClones \subseteq DOMAIN cache.cache

\* C19 amended: the step in which a git command exits non-zero does not end
\* the process; unless it was the clone of the index that failed, a first
\* run in a conflict-free, published world still reaches the fixpoint, and
\* the cache file a run writes lists every package whose clone failed, with
\* its directory absent if no later clone of it succeeded.
C19_GitFailureNotInspected ==
  /\ [][ gitFails' > gitFails => (pc' # "aborted" /\ exit' = exit) ]_vars
  /\ []((GoodRunEnded /\ ~IndexCloneFailed) => pc = "done")
  /\ [](pc = "done"
          => /\ cacheFile \in save(cache.cache)
             /\ FailedClones \subseteq DOMAIN cache.cache
             /\ \A n \in FailedClones :
                  Git("clone", n, TRUE) \notin DOMAIN gitLog => n \notin depsDirs)

C19_Witness ==
  /\ pc = "done"
  /\ \E n \in FailedClones : n \notin depsDirs /\ n \in DOMAIN cache.cache
  /\ cacheFile \in save(cache.cache)
  /\ Cardinality(DOMAIN cache.cache) >= 2

----------------------------------------------------------------------------
(* C20 *)

\* the entries fetch_cache seeded this run's cache with
Seeded ==
  UNION { {<<n, r.config[n]>> : n \in DOMAIN r.config}
          : r \in {q \in parse_config(startFile) : q.status = "returned"} }

\* C20: the cache a run that returned has persisted holds every entry the
\* cache file seeded, and every entry of the cache the previous run
\* persisted, if that run returned too, each with its version.
C20_CacheNeverShrinks ==
  pc = "done"
    => /\ Seeded \subseteq CacheEntries
       /\ (runs >= 2 /\ prev.status = "done")
            => \A n \in DOMAIN prev.cache :
                 n \in DOMAIN cache.cache /\ cache.cache[n] = prev.cache[n]

\* C20, for what the run itself does to the cache in memory.
C20_SeededKept ==
  pc = "done" => Seeded \subseteq CacheEntries

====
